---- MODULE Spec2Model ----
(***************************************************************************)
(* Model of class Hypergraph of src/src/hyper.py: the edge set, node set,  *)
(* degree mapping and lazily built neighbourhood cache, with add_edge and  *)
(* the query operations neighbors, neighborhood, hyperedges,               *)
(* extra_overlap, clustering and fill_coefficient.                         *)
(*                                                                         *)
(* Python floats are modelled as exact rationals <<numerator, denominator>>*)
(* (rounding is not modelled).  A raised exception is a result whose kind  *)
(* is the exception's name.                                                *)
(***************************************************************************)
EXTENDS Integers, FiniteSets, Sequences, TLC

\* Node identifiers are 1..MaxNode.
MaxNode == 3
\* degree is an unbounded counter: a run makes at most MaxAdds calls of add_edge,
\* and at most MaxAddsAll in the specification of all the operations.
MaxAdds == 3
MaxAddsAll == 4
\* Node identifiers in the runs of fill_coefficient, where two hyperedges of
\* three nodes or more have to tie in size.
MaxFillNode == 4

Nodes == 1..MaxNode
\* The arguments add_edge is called with: the non-empty sets of nodes.
EdgeArgs == (SUBSET Nodes) \ {{}}
FillEdgeArgs == (SUBSET (1..MaxFillNode)) \ {{}}

VARIABLES
    edges,        \* self.edges: set of frozensets
    nodes,        \* self.nodes
    degree,       \* self.degree: defaultdict(int), a function on its keys
    _neighbors,   \* self._neighbors: None or dict node -> set
    numAdds,      \* number of add_edge calls so far
    firstQuery,   \* history: the co-occurrence relation at the first neighbors call
    ret           \* the last call: its name, argument and result

vars == <<edges, nodes, degree, _neighbors, numAdds, firstQuery, ret>>

----------------------------------------------------------------------------
\* Results and rationals

Ok(v) == [kind |-> "ok", val |-> v]
Raise(exc, dflt) == [kind |-> exc, val |-> dflt]

RECURSIVE GCD(_, _)
GCD(a, b) == IF b = 0 THEN a ELSE GCD(b, a % b)

Norm(p) == IF p[1] = 0 THEN <<0, 1>>
           ELSE LET g == GCD(p[1], p[2]) IN <<p[1] \div g, p[2] \div g>>
RatAdd(p, q) == Norm(<<p[1] * q[2] + q[1] * p[2], p[2] * q[2]>>)
RatEq(p, q) == p[1] * q[2] = q[1] * p[2]
RatLeq(p, q) == p[1] * q[2] <= q[1] * p[2]

RECURSIVE Pow2(_)
Pow2(n) == IF n = 0 THEN 1 ELSE 2 * Pow2(n - 1)

\* scipy.special.binom(deg, 2)
Binom2(deg) == (deg * (deg - 1)) \div 2

----------------------------------------------------------------------------
\* self.degree, a defaultdict(int)

NoDegree == [n \in {} |-> 0]
\* the value a read of self.degree[n] yields
DegreeGet(d, n) == IF n \in DOMAIN d THEN d[n] ELSE 0
\* self.degree after a read of self.degree[n]: a missing key is inserted with int() = 0
DegreeAfterRead(d, n) == [m \in DOMAIN d \cup {n} |-> DegreeGet(d, m)]
\* self.degree after "for node in edge: self.degree[node] += 1"
DegreeAfterAdd(d, e) ==
    [m \in DOMAIN d \cup e |-> IF m \in e THEN DegreeGet(d, m) + 1 ELSE d[m]]

----------------------------------------------------------------------------
\* self._neighbors

NoneCache == [isNone |-> TRUE, neighs |-> <<>>]

\* lines 230-235: start from the empty set per node, add every edge the node is
\* in, remove the node itself
BuildNeighs(ns, es) ==
    [n \in ns |-> (UNION {e \in es : n \in e}) \ {n}]

\* lines 229-236: the cache after a call of neighbors
CacheAfterQuery(c, ns, es) ==
    IF c.isNone THEN [isNone |-> FALSE, neighs |-> BuildNeighs(ns, es)] ELSE c

\* a variant in which add_edge drops the cache
CacheAfterAdd_invalidate(c) == NoneCache

\* add_edge does not touch self._neighbors
CacheAfterAdd(c) == c

\* line 238: self._neighbors[node], on a built cache
neighbors(c, node) ==
    IF node \in DOMAIN c.neighs THEN Ok(c.neighs[node]) ELSE Raise("KeyError", {})

\* lines 216-218: neighborhood of a set of nodes, on a built cache
neighborhood(c, ns) ==
    IF ns = {} THEN Ok({})
    ELSE IF \E n \in ns : neighbors(c, n).kind # "ok" THEN Raise("KeyError", {})
    ELSE Ok(UNION {neighbors(c, n).val : n \in ns})

\* hyperedges(node)
hyperedges(es, node) == {e \in es : node \in e}

----------------------------------------------------------------------------
\* extra_overlap, lines 182-190, on a built cache; the value is <<numerator, denominator>>

\* a variant that divides by len(diff_1) + len(diff_1)
extra_overlap_diff1_twice(c, edge1, edge2) ==
    IF edge1 = edge2 THEN Ok(<<0, 1>>)
    ELSE LET diff_1 == edge1 \ edge2
             diff_2 == edge2 \ edge1
             n1 == neighborhood(c, diff_1)
             n2 == neighborhood(c, diff_2)
         IN IF n1.kind # "ok" \/ n2.kind # "ok" THEN Raise("KeyError", <<0, 1>>)
            ELSE LET numerator == Cardinality(n1.val \cap diff_2)
                                  + Cardinality(n2.val \cap diff_1)
                     denominator == Cardinality(diff_1) + Cardinality(diff_1)
                 IN IF denominator = 0 THEN Raise("ZeroDivisionError", <<0, 1>>)
                    ELSE Ok(<<numerator, denominator>>)

\* a variant without the test edge1 == edge2
extra_overlap_no_guard(c, edge1, edge2) ==
    LET diff_1 == edge1 \ edge2
        diff_2 == edge2 \ edge1
        n1 == neighborhood(c, diff_1)
        n2 == neighborhood(c, diff_2)
    IN IF n1.kind # "ok" \/ n2.kind # "ok" THEN Raise("KeyError", <<0, 1>>)
       ELSE LET numerator == Cardinality(n1.val \cap diff_2)
                             + Cardinality(n2.val \cap diff_1)
                denominator == Cardinality(diff_1) + Cardinality(diff_2)
            IN IF denominator = 0 THEN Raise("ZeroDivisionError", <<0, 1>>)
               ELSE Ok(<<numerator, denominator>>)

\* a variant that intersects the neighbourhoods of the whole edges with the whole edges
extra_overlap_whole_edges(c, edge1, edge2) ==
    IF edge1 = edge2 THEN Ok(<<0, 1>>)
    ELSE LET diff_1 == edge1 \ edge2
             diff_2 == edge2 \ edge1
             n1 == neighborhood(c, edge1)
             n2 == neighborhood(c, edge2)
         IN IF n1.kind # "ok" \/ n2.kind # "ok" THEN Raise("KeyError", <<0, 1>>)
            ELSE LET numerator == Cardinality(n1.val \cap edge2)
                                  + Cardinality(n2.val \cap edge1)
                     denominator == Cardinality(diff_1) + Cardinality(diff_2)
                 IN IF denominator = 0 THEN Raise("ZeroDivisionError", <<0, 1>>)
                    ELSE Ok(<<numerator, denominator>>)

extra_overlap(c, edge1, edge2) ==
    IF edge1 = edge2 THEN Ok(<<0, 1>>)
    ELSE LET diff_1 == edge1 \ edge2
             diff_2 == edge2 \ edge1
             n1 == neighborhood(c, diff_1)
             n2 == neighborhood(c, diff_2)
         IN IF n1.kind # "ok" \/ n2.kind # "ok" THEN Raise("KeyError", <<0, 1>>)
            ELSE LET numerator == Cardinality(n1.val \cap diff_2)
                                  + Cardinality(n2.val \cap diff_1)
                     denominator == Cardinality(diff_1) + Cardinality(diff_2)
                 IN IF denominator = 0 THEN Raise("ZeroDivisionError", <<0, 1>>)
                    ELSE Ok(<<numerator, denominator>>)

\* whether extra_overlap(edge1, edge2) calls neighbors
OverlapCallsNeighbors(edge1, edge2) == edge1 # edge2

----------------------------------------------------------------------------
\* node_clustering, lines 142-150

\* combinations(edges, 2): the unordered pairs, each once
combinations2(es) == {p \in SUBSET es : Cardinality(p) = 2}

\* one pair as combinations yields it; which member comes first depends on the
\* iteration order of the set
PairOverlap(c, p) ==
    LET e1 == CHOOSE e \in p : TRUE
        e2 == CHOOSE e \in p : e # e1
    IN extra_overlap(c, e1, e2)

RECURSIVE SumOverlap(_, _)
SumOverlap(c, ps) ==
    IF ps = {} THEN Ok(<<0, 1>>)
    ELSE LET p == CHOOSE q \in ps : TRUE
             head == PairOverlap(c, p)
             rest == SumOverlap(c, ps \ {p})
         IN IF head.kind # "ok" THEN Raise(head.kind, <<0, 1>>)
            ELSE IF rest.kind # "ok" THEN Raise(rest.kind, <<0, 1>>)
            ELSE Ok(RatAdd(head.val, rest.val))

\* a variant without the test deg < 2
node_clustering_no_guard(c, es, d, node) ==
    LET deg == DegreeGet(d, node)
        value == SumOverlap(c, combinations2(hyperedges(es, node)))
    IN IF value.kind # "ok" THEN Raise(value.kind, <<0, 1>>)
       ELSE IF Binom2(deg) = 0 THEN Raise("nan", <<0, 1>>)
       ELSE Ok(Norm(<<value.val[1], value.val[2] * Binom2(deg)>>))

node_clustering(c, es, d, node) ==
    LET deg == DegreeGet(d, node)
    IN IF deg < 2 THEN Ok(<<0, 1>>)
       ELSE LET value == SumOverlap(c, combinations2(hyperedges(es, node)))
            IN IF value.kind # "ok" THEN Raise(value.kind, <<0, 1>>)
               ELSE IF Binom2(deg) = 0 THEN Raise("nan", <<0, 1>>)
               ELSE Ok(Norm(<<value.val[1], value.val[2] * Binom2(deg)>>))

\* whether node_clustering(node) calls neighbors: it passes the degree test and
\* there is a pair of hyperedges (which are distinct)
ClusteringCallsNeighbors(es, d, node) ==
    DegreeGet(d, node) >= 2 /\ combinations2(hyperedges(es, node)) # {}

----------------------------------------------------------------------------
\* fill_coefficient, lines 255-268

\* sorted(self.edges, key=len, reverse=True): the sort is stable over the set's
\* iteration order, which is arbitrary, so every order of the edges that is
\* descending in size can come out
RECURSIVE Orderings(_)
Orderings(es) ==
    IF es = {} THEN {<<>>}
    ELSE LET big == {e \in es : \A g \in es : Cardinality(g) <= Cardinality(e)}
         IN UNION {{<<e>> \o o : o \in Orderings(es \ {e})} : e \in big}

fill_denominator(h) == Pow2(Cardinality(h)) - 1 - 1 - Cardinality(h)

\* a variant whose inner loop starts at idx
fill_count_from_idx(ordered, idx) ==
    Cardinality({idx2 \in idx..Len(ordered) :
                    /\ Cardinality(ordered[idx2]) > 1
                    /\ ordered[idx2] \subseteq ordered[idx]})

\* the inner loop: positions idx+1 .. num_edges of ordered
fill_count(ordered, idx) ==
    Cardinality({idx2 \in (idx + 1)..Len(ordered) :
                    /\ Cardinality(ordered[idx2]) > 1
                    /\ ordered[idx2] \subseteq ordered[idx]})

fill_all(ordered) ==
    [h \in {ordered[i] : i \in 1..Len(ordered)} |->
        LET idx == CHOOSE i \in 1..Len(ordered) : ordered[i] = h
        IN IF Cardinality(h) < 3 THEN <<0, 1>>
           ELSE <<fill_count(ordered, idx), fill_denominator(h)>>]

\* edge is not None: the branch is skipped and "return fill" reads an unassigned local
fill_single(es, edge) == Raise("UnboundLocalError", <<0, 1>>)

----------------------------------------------------------------------------
\* History: what the claim about the cache calls "the time of the first query"

NoFirstQuery == [taken |-> FALSE, neighs |-> <<>>]
CoOccur(es, n) == {m \in (UNION es) \ {n} : \E e \in es : n \in e /\ m \in e}
FirstQueryAfter(f, called) ==
    IF called /\ ~f.taken
    THEN [taken |-> TRUE, neighs |-> [n \in nodes |-> CoOccur(edges, n)]]
    ELSE f

----------------------------------------------------------------------------
Init ==
    /\ edges = {}
    /\ nodes = {}
    /\ degree = NoDegree
    /\ _neighbors = NoneCache
    /\ numAdds = 0
    /\ firstQuery = NoFirstQuery
    /\ ret = [op |-> "init", arg |-> {}, res |-> Ok({})]

\* add_edge(edge), lines 110-113
AddEdge(edge, maxAdds) ==
    /\ numAdds < maxAdds
    /\ edges' = edges \cup {edge}
    /\ degree' = DegreeAfterAdd(degree, edge)
    /\ nodes' = nodes \cup edge
    /\ _neighbors' = CacheAfterAdd(_neighbors)
    /\ numAdds' = numAdds + 1
    /\ ret' = [op |-> "add_edge", arg |-> {}, res |-> Ok({})]
    /\ UNCHANGED firstQuery

\* hyperedges(node), line 127
Hyperedges(node) ==
    /\ ret' = [op |-> "hyperedges", arg |-> node, res |-> Ok(hyperedges(edges, node))]
    /\ UNCHANGED <<edges, nodes, degree, _neighbors, numAdds, firstQuery>>

\* hyperedges(), line 126
HyperedgesAll ==
    /\ ret' = [op |-> "hyperedges_all", arg |-> {}, res |-> Ok(edges)]
    /\ UNCHANGED <<edges, nodes, degree, _neighbors, numAdds, firstQuery>>

\* neighbors(node), lines 229-238; neighborhood(node) with a node delegates here
Neighbors(node) ==
    LET c == CacheAfterQuery(_neighbors, nodes, edges)
    IN /\ _neighbors' = c
       /\ firstQuery' = FirstQueryAfter(firstQuery, TRUE)
       /\ ret' = [op |-> "neighbors", arg |-> node, res |-> neighbors(c, node)]
       /\ UNCHANGED <<edges, nodes, degree, numAdds>>

\* neighborhood(nodes) with a set, lines 216-218
Neighborhood(ns) ==
    LET c == CacheAfterQuery(_neighbors, nodes, edges)
    IN /\ _neighbors' = IF ns = {} THEN _neighbors ELSE c
       /\ firstQuery' = FirstQueryAfter(firstQuery, ns # {})
       /\ ret' = [op |-> "neighborhood", arg |-> ns, res |-> neighborhood(c, ns)]
       /\ UNCHANGED <<edges, nodes, degree, numAdds>>

\* extra_overlap(edge1, edge2) for two hyperedges of the hypergraph
ExtraOverlap(edge1, edge2) ==
    LET c == CacheAfterQuery(_neighbors, nodes, edges)
        called == OverlapCallsNeighbors(edge1, edge2)
    IN /\ _neighbors' = IF called THEN c ELSE _neighbors
       /\ firstQuery' = FirstQueryAfter(firstQuery, called)
       /\ ret' = [op |-> "extra_overlap", arg |-> <<edge1, edge2>>,
                  res |-> extra_overlap(c, edge1, edge2)]
       /\ UNCHANGED <<edges, nodes, degree, numAdds>>

\* clustering(node), line 161
Clustering(node) ==
    LET c == CacheAfterQuery(_neighbors, nodes, edges)
        called == ClusteringCallsNeighbors(edges, degree, node)
    IN /\ degree' = DegreeAfterRead(degree, node)
       /\ _neighbors' = IF called THEN c ELSE _neighbors
       /\ firstQuery' = FirstQueryAfter(firstQuery, called)
       /\ ret' = [op |-> "clustering", arg |-> node,
                  res |-> node_clustering(c, edges, degree, node)]
       /\ UNCHANGED <<edges, nodes, numAdds>>

\* clustering(), line 159: every node of self.nodes is a key of self.degree
ClusteringAll ==
    LET c == CacheAfterQuery(_neighbors, nodes, edges)
        called == \E n \in nodes : ClusteringCallsNeighbors(edges, degree, n)
        each == [n \in nodes |-> node_clustering(c, edges, degree, n)]
    IN /\ _neighbors' = IF called THEN c ELSE _neighbors
       /\ firstQuery' = FirstQueryAfter(firstQuery, called)
       /\ ret' = [op |-> "clustering_all", arg |-> {},
                  res |-> IF \E n \in nodes : each[n].kind # "ok"
                          THEN Raise("KeyError", <<>>)
                          ELSE Ok([n \in nodes |-> each[n].val])]
       /\ UNCHANGED <<edges, nodes, degree, numAdds>>

\* fill_coefficient(), lines 255-268
FillCoefficient ==
    \E ordered \in Orderings(edges) :
        /\ ret' = [op |-> "fill_coefficient", arg |-> {}, res |-> Ok(fill_all(ordered))]
        /\ UNCHANGED <<edges, nodes, degree, _neighbors, numAdds, firstQuery>>

\* fill_coefficient(edge) with a hyperedge of the hypergraph
FillCoefficientEdge(edge) ==
    /\ ret' = [op |-> "fill_coefficient_edge", arg |-> edge, res |-> fill_single(edges, edge)]
    /\ UNCHANGED <<edges, nodes, degree, _neighbors, numAdds, firstQuery>>

Next ==
    \/ \E edge \in EdgeArgs : AddEdge(edge, MaxAddsAll)
    \/ \E node \in Nodes : Hyperedges(node)
    \/ HyperedgesAll
    \/ \E node \in Nodes : Neighbors(node)
    \/ \E ns \in SUBSET Nodes : Neighborhood(ns)
    \/ \E edge1 \in edges, edge2 \in edges : ExtraOverlap(edge1, edge2)
    \/ \E node \in Nodes : Clustering(node)
    \/ ClusteringAll
    \/ FillCoefficient
    \/ \E edge \in edges : FillCoefficientEdge(edge)

Spec == Init /\ [][Next]_vars

\* Runs of add_edge, neighbors and extra_overlap only
NextOverlap ==
    \/ \E edge \in EdgeArgs : AddEdge(edge, MaxAdds)
    \/ \E node \in Nodes : Neighbors(node)
    \/ \E edge1 \in edges, edge2 \in edges : ExtraOverlap(edge1, edge2)

SpecOverlap == Init /\ [][NextOverlap]_vars

\* Runs of add_edge, neighbors and neighborhood only
NextNeighbors ==
    \/ \E edge \in EdgeArgs : AddEdge(edge, MaxAdds)
    \/ \E node \in Nodes : Neighbors(node)
    \/ \E ns \in SUBSET Nodes : Neighborhood(ns)

SpecNeighbors == Init /\ [][NextNeighbors]_vars

\* Runs of add_edge, neighbors and clustering(node) only
NextClustering ==
    \/ \E edge \in EdgeArgs : AddEdge(edge, MaxAdds)
    \/ \E node \in Nodes : Neighbors(node)
    \/ \E node \in Nodes : Clustering(node)

SpecClustering == Init /\ [][NextClustering]_vars

\* Runs of add_edge and fill_coefficient() only, over 1..MaxFillNode
NextFill ==
    \/ \E edge \in FillEdgeArgs : AddEdge(edge, MaxAdds)
    \/ FillCoefficient

SpecFill == Init /\ [][NextFill]_vars

----------------------------------------------------------------------------
\* Properties

\* the number of distinct hyperedges that contain n
NumEdgesWith(n) == Cardinality({e \in edges : n \in e})

\* C1: after any sequence of add_edge calls the stored degree of every node is the
\* number of distinct hyperedges that contain it (absent counts as 0).
C1_DegreeCountsDistinctEdges ==
    \A n \in Nodes : DegreeGet(degree, n) = NumEdgesWith(n)

\* C2: a call neighbors(n), for a node n that was in the hypergraph at the first
\* neighbors call, returns the nodes that co-occurred with n at that first call,
\* whatever edges were added since.
C2_CacheBuiltOnce ==
    (ret.op = "neighbors" /\ ret.arg \in DOMAIN firstQuery.neighs)
        => /\ firstQuery.taken
           /\ ret.res = Ok(firstQuery.neighs[ret.arg])

\* a neighbors call answered from the cache although an edge added after the
\* first call has given the node a new co-occurring node
C2_Witness ==
    /\ ret.op = "neighbors"
    /\ ret.arg \in DOMAIN firstQuery.neighs
    /\ ret.res.kind = "ok"
    /\ CoOccur(edges, ret.arg) # ret.res.val

\* the hyperedges a hyperedge h should count: of 2 nodes or more, smaller than h,
\* inside h
FillSubsets(h) ==
    {g \in edges : Cardinality(g) >= 2 /\ Cardinality(g) < Cardinality(h) /\ g \subseteq h}

\* C3: fill_coefficient() maps every hyperedge h of 3 nodes or more to the number
\* of hyperedges g with 2 <= |g| < |h| and g inside h, over 2^|h| - 2 - |h|,
\* whichever order the sort gives the hyperedges of equal size.
C3_FillCountsProperSubsets ==
    ret.op = "fill_coefficient"
        => /\ ret.res.kind = "ok"
           /\ DOMAIN ret.res.val = edges
           /\ \A h \in edges :
                Cardinality(h) >= 3
                    => ret.res.val[h] = <<Cardinality(FillSubsets(h)),
                                          Pow2(Cardinality(h)) - 2 - Cardinality(h)>>

\* fill_coefficient() has returned for a hypergraph where two hyperedges of three
\* nodes tie in size and one of them has a hyperedge inside it
C3_Witness ==
    /\ ret.op = "fill_coefficient"
    /\ \E h \in edges, g \in edges :
            /\ h # g
            /\ Cardinality(h) >= 3
            /\ Cardinality(g) = Cardinality(h)
            /\ ret.res.val[h][1] >= 1

\* C4: fill_coefficient(edge) with a hyperedge of the hypergraph returns that
\* hyperedge's fill coefficient over the full edge set.
C4_FillSingleEdge ==
    ret.op = "fill_coefficient_edge"
        => /\ ret.res.kind = "ok"
           /\ ret.res.val = IF Cardinality(ret.arg) < 3 THEN <<0, 1>>
                            ELSE <<Cardinality(FillSubsets(ret.arg)),
                                   Pow2(Cardinality(ret.arg)) - 2 - Cardinality(ret.arg)>>

\* C5: extra_overlap(e1, e2) and extra_overlap(e2, e1) give the same result.
C5_ExtraOverlapSymmetric ==
    ret.op = "extra_overlap"
        => ret.res = extra_overlap(CacheAfterQuery(_neighbors, nodes, edges),
                                   ret.arg[2], ret.arg[1])

\* extra_overlap has returned a non-zero value for two hyperedges whose exclusive
\* parts differ in size
C5_Witness ==
    /\ ret.op = "extra_overlap"
    /\ ret.res.kind = "ok"
    /\ ret.res.val[1] > 0
    /\ Cardinality(ret.arg[1] \ ret.arg[2]) # Cardinality(ret.arg[2] \ ret.arg[1])

\* C6: extra_overlap never divides by zero: it returns 0 for equal hyperedges, and
\* the denominator of a division it reaches is positive.
C6_ExtraOverlapNoZeroDivision ==
    ret.op = "extra_overlap"
        => /\ ret.res.kind # "ZeroDivisionError"
           /\ ret.arg[1] = ret.arg[2] => ret.res = Ok(<<0, 1>>)
           /\ (ret.arg[1] # ret.arg[2] /\ ret.res.kind = "ok") => ret.res.val[2] > 0

\* extra_overlap(e, e) has returned
C6_Witness ==
    /\ ret.op = "extra_overlap"
    /\ ret.arg[1] = ret.arg[2]
    /\ ret.res = Ok(<<0, 1>>)

\* the nodes of only one of the two hyperedges
Exclusive(edge1, edge2) == (edge1 \ edge2) \cup (edge2 \ edge1)

\* C7 as stated: extra_overlap of two distinct hyperedges is in [0, 2], and there
\* is a hypergraph with two hyperedges whose numerator exceeds the denominator.
C7_ExtraOverlapCanExceedOne ==
    /\ (ret.op = "extra_overlap" /\ ret.arg[1] # ret.arg[2] /\ ret.res.kind = "ok")
            => (0 <= ret.res.val[1] /\ ret.res.val[1] <= 2 * ret.res.val[2])
    /\ \E es \in SUBSET EdgeArgs :
            \E edge1 \in es, edge2 \in es :
                LET r == extra_overlap([isNone |-> FALSE,
                                        neighs |-> BuildNeighs(UNION es, es)],
                                       edge1, edge2)
                IN r.kind = "ok" /\ r.val[1] > r.val[2]

\* C7 amended: extra_overlap of two distinct hyperedges whose exclusive nodes are
\* all keys of the cache is in [0, 1]: the numerator never exceeds the
\* denominator; with an exclusive node that is no key of the cache it raises
\* KeyError.
C7_ExtraOverlapAtMostOne ==
    (ret.op = "extra_overlap" /\ ret.arg[1] # ret.arg[2])
        => IF Exclusive(ret.arg[1], ret.arg[2]) \subseteq DOMAIN _neighbors.neighs
           THEN /\ ret.res.kind = "ok"
                /\ 0 <= ret.res.val[1]
                /\ ret.res.val[1] <= ret.res.val[2]
           ELSE ret.res.kind = "KeyError"

\* extra_overlap has returned exactly 1 for two distinct hyperedges
C7_Witness ==
    /\ ret.op = "extra_overlap"
    /\ ret.arg[1] # ret.arg[2]
    /\ ret.res.kind = "ok"
    /\ ret.res.val[1] = ret.res.val[2]

\* C8: clustering(node) is 0 for every node in fewer than two hyperedges: a node
\* never inserted, and a node in one hyperedge however often it was inserted.
C8_ClusteringZeroBelowTwo ==
    (ret.op = "clustering" /\ NumEdgesWith(ret.arg) < 2)
        => /\ ret.res.kind = "ok"
           /\ ret.res.val[1] = 0

\* clustering(node) has returned for a node whose one hyperedge was inserted twice
C8_Witness ==
    /\ ret.op = "clustering"
    /\ NumEdgesWith(ret.arg) = 1
    /\ DegreeGet(degree, ret.arg) >= 2
    /\ ret.res = Ok(<<0, 1>>)

\* C9: for a node in two hyperedges or more, clustering(node) is the sum of
\* extra_overlap over the unordered pairs of its hyperedges divided by the number
\* of those pairs.
C9_ClusteringIsMeanOverPairs ==
    (ret.op = "clustering" /\ NumEdgesWith(ret.arg) >= 2)
        => LET pairs == combinations2(hyperedges(edges, ret.arg))
               total == SumOverlap(CacheAfterQuery(_neighbors, nodes, edges), pairs)
           IN total.kind = "ok"
                => /\ ret.res.kind = "ok"
                   /\ RatEq(ret.res.val,
                            <<total.val[1], total.val[2] * Cardinality(pairs)>>)

\* C10: a query leaves the edge set, the node set and the degree mapping, keys
\* and values, as they were (a step that is no add_edge call is a query).
C10_QueriesKeepEdgesNodesDegree ==
    [][numAdds' = numAdds => (edges' = edges /\ nodes' = nodes /\ degree' = degree)]_vars

====
